---- MODULE Spec2Model ----
(***************************************************************************)
(* Model of the CloudWatch Logs datasource backend (datasource.go):        *)
(*   - the client registry           GetClient                             *)
(*   - the request dispatcher        Query, handleQuery, metricFindQuery   *)
(*   - the result shapers            parseTableResponse, transformToTable  *)
(* The AWS SDK and the provider are the environment: a paged operation     *)
(* hands the callback one page at a time and stops when the callback       *)
(* returns false, when no page is left, or when a page request fails.      *)
(***************************************************************************)
EXTENDS Integers, Sequences, FiniteSets, TLC

VARIABLES
    clientCache,   \* var clientCache: region -> client handle (NoClient: no entry)
    builtCount,    \* history: cloudwatchlogs.New calls made per region
    goroutines,    \* the goroutines that call GetClient (fixed by Init)
    gpc,           \* per goroutine: its position inside GetClient
    greg,          \* per goroutine: the region argument of its call
    gnew,          \* per goroutine: the client it constructed at line 46
    gret,          \* per goroutine: what its last finished call did and returned
    gafter,        \* history: its call started after a call for that region succeeded
    mapWriting,    \* goroutines in the middle of the map assignment of line 46
    crashed,       \* the runtime threw on a concurrent map access
    ncalls,        \* GetClient calls started so far
    firstClient,   \* history: region -> the first handle a call returned for it
    pc,            \* position of the request being handled by Query
    req,           \* the DatasourceRequest being handled
    idx,           \* index of the target being processed
    pages,         \* the pages the provider has still to return for the current call
    acc,           \* resp.Events / groups.LogGroups / streams.LogStreams
    delivered,     \* history: the pages handed to the callback, in order
    pageReqs,      \* history: page requests issued for the current paged call
    results,       \* response.Results of handleQuery
    response,      \* what Query returned
    cause,         \* history: the internal error that ended the request
    provCalls      \* history: <<operation, target index>> of every provider call

regVars  == <<goroutines, gpc, greg, gnew, gret, gafter, mapWriting, crashed,
              ncalls, firstClient>>
procVars == <<clientCache, builtCount>>
reqVars  == <<pc, req, idx, pages, acc, delivered, pageReqs, results, response,
              cause, provCalls>>
vars     == <<clientCache, builtCount, goroutines, gpc, greg, gnew, gret, gafter,
              mapWriting, crashed, ncalls, firstClient, pc, req, idx, pages, acc,
              delivered, pageReqs, results, response, cause, provCalls>>

(***************************************************************************)
(* Bounds of the model.                                                    *)
(***************************************************************************)
MaxCalls == 4
MaxTargets == 2
MaxPages == 2
MaxEvents == 3
MaxGroups == 7

Regions == {"us-east-1", "sa-east-1"}

\* The goroutines that may call into the plugin.
Procs == {1, 2}

(***************************************************************************)
(* Requests (Target, datasource.go 25-31, and the raw model of a query).  *)
(*   json: "ok"       the model decodes into Target                        *)
(*         "badtype"  valid JSON, a Target field of the wrong type         *)
(*         "notjson"  not a JSON document                                  *)
(***************************************************************************)
RefIds == {"A", "B"}

Formats == {"table", "timeserie", "heatmap"}

Subtypes == {"log_group_names", "log_stream_names", "log_events", ""}

Model(json, queryType, format, region, refId, subtype) ==
    [json |-> json, queryType |-> queryType, format |-> format,
     region |-> region, refId |-> refId, subtype |-> subtype]

TableModels ==
    {Model("ok", "", f, r, id, "") : f \in Formats, r \in Regions, id \in RefIds}

BrokenModels ==
    {Model("notjson", "", "", "us-east-1", "", ""),
     Model("badtype", "", "table", "us-east-1", "A", "")}

\* What the first query of a request may be: it selects the mode.
FirstModels ==
    TableModels \cup BrokenModels
    \cup {Model("badtype", qt, "table", "us-east-1", "A", "log_group_names") :
            qt \in {"metricFindQuery", "annotationQuery"}}
    \cup {Model("ok", "annotationQuery", "table", r, "A", "") : r \in Regions}
    \cup {Model("ok", "metricFindQuery", "", r, "", st) :
            r \in Regions, st \in Subtypes}

\* The queries after the first: their queryType is never read.
RestModels == TableModels \cup BrokenModels

QueryLists ==
    UNION {{q \in [1..n -> FirstModels \cup RestModels] :
              /\ q[1] \in FirstModels
              /\ \A i \in 2..n : q[i] \in RestModels} : n \in 1..MaxTargets}

\* A request holds at least one query (line 51 reads Queries[0]).
\* timeOK: TimeRange.FromRaw and ToRaw are decimal integers.
Requests == [timeOK : BOOLEAN, queries : QueryLists]

NoReq == [timeOK |-> TRUE, queries |-> <<>>]

(***************************************************************************)
(* What the provider holds: log events, log groups, log streams.          *)
(***************************************************************************)
\* An event as the provider returns it: the four fields parseTableResponse
\* dereferences are set (a nil field would end the process at line 190-195).
Event(ts, it, stream, msg) ==
    [Timestamp |-> ts, IngestionTime |-> it, LogStreamName |-> stream,
     Message |-> msg]

EventPool ==
    {Event(1700000123, 1700001999, "app/1", "start"),
     Event(1700000999, 1700002000, "app/2", "warn"),
     Event(-1500, 0, "app/1", "epoch"),
     Event(1000, 999, "app/3", "stop")}

LogData(region) ==
    IF region = "us-east-1"
    THEN {<<Event(1700000123, 1700001999, "app/1", "start"),
            Event(-1500, 0, "app/1", "epoch"),
            Event(1700000999, 1700002000, "app/2", "warn")>>}
    ELSE {<<>>,
          <<Event(1000, 999, "app/3", "stop"),
            Event(1700000123, 1700001999, "app/1", "start")>>}

Group(name, created) == [Name |-> name, CreationTime |-> created]

GroupData(region) ==
    IF region = "us-east-1"
    THEN {<<Group("/aws/a", 2), Group("/aws/b", 3), Group("/aws/c", 2)>>}
    ELSE {<<>>, <<Group("/ecs/x", 1), Group("/ecs/y", 5)>>}

Stream(name, created) == [Name |-> name, CreationTime |-> created]

StreamData(region) ==
    IF region = "us-east-1"
    THEN {<<Stream("s-1", 7), Stream("s-2", 7), Stream("s-3", 9)>>}
    ELSE {<<Stream("t-1", 4)>>}

\* The ways the provider may cut a listing into at most k pages (a page may
\* be empty).
RECURSIVE Splits(_, _)
Splits(s, k) ==
    {<<s>>} \cup
    (IF k <= 1 THEN {}
     ELSE UNION {{<<SubSeq(s, 1, c)>> \o rest :
                    rest \in Splits(SubSeq(s, c + 1, Len(s)), k - 1)} :
                 c \in 0..Len(s)})

(***************************************************************************)
(* Responses (datasource.QueryResult, Table, TableRow, RowValue).          *)
(***************************************************************************)
QueryResult(refId, error, tables, metaJson) ==
    [RefId |-> refId, Error |-> error, Tables |-> tables, MetaJson |-> metaJson]

Envelope(rs) == [kind |-> "envelope", results |-> rs, err |-> ""]

TransportError(msg) == [kind |-> "transport_error", results |-> <<>>, err |-> msg]

NoResponse == [kind |-> "none", results |-> <<>>, err |-> ""]

RowValue(str) == [Kind |-> "TYPE_STRING", StringValue |-> str]

(***************************************************************************)
(* Result shapers (datasource.go 181-203, 273-288).                        *)
(***************************************************************************)
\* Go's integer division and remainder truncate toward zero.
GoDiv(a, b) == IF a >= 0 THEN a \div b ELSE -((-a) \div b)

GoRem(a, b) == a - b * GoDiv(a, b)

\* time.Unix(ms/1000, ms%1000*1000*1000): the second the instant falls in. A
\* negative nanosecond part borrows one second.
UnixSecond(ms) ==
    LET sec  == GoDiv(ms, 1000)
        nsec == GoRem(ms, 1000) * 1000 * 1000
    IN IF nsec < 0 THEN sec - 1 ELSE sec

\* .Format(time.RFC3339): the layout has no fraction of a second, so the text
\* is a rendering of the second alone; the decimal second stands for it.
FormatRFC3339(ms) == ToString(UnixSecond(ms))

TableRowSwapped(e) ==
    <<RowValue(FormatRFC3339(e.IngestionTime)),
      RowValue(FormatRFC3339(e.Timestamp)),
      RowValue(e.LogStreamName),
      RowValue(e.Message)>>

\* line 189-196: the row of one event.
TableRow(e) ==
    <<RowValue(FormatRFC3339(e.Timestamp)),
      RowValue(FormatRFC3339(e.IngestionTime)),
      RowValue(e.LogStreamName),
      RowValue(e.Message)>>

parseTableResponse(events, refId) ==
    QueryResult(refId, "",
                <<[Columns |-> <<"Timestamp", "IngestionTime", "LogStreamName",
                                 "Message">>,
                   Rows |-> [i \in 1..Len(events) |-> TableRow(events[i])]]>>,
                <<>>)

\* suggestData{Text: name, Value: name} (line 238, 258).
SuggestData(entries) ==
    [i \in 1..Len(entries) |-> [Text |-> entries[i].Name, Value |-> entries[i].Name]]

transformToTableValueFirst(data) ==
    [Columns |-> <<"value", "text">>,
     Rows |-> [i \in 1..Len(data) |->
                 <<RowValue(data[i].Value), RowValue(data[i].Text)>>]]

transformToTable(data) ==
    [Columns |-> <<"text", "value">>,
     Rows |-> [i \in 1..Len(data) |->
                 <<RowValue(data[i].Text), RowValue(data[i].Value)>>]]

\* json.Marshal(resp) of the annotation path (line 100): the document. A nil
\* Events slice (nothing was appended) is written as null.
MarshalResp(events) ==
    [Events |-> [null |-> events = <<>>,
                 items |-> [i \in 1..Len(events) |->
                              [EventId |-> "null",
                               IngestionTime |-> events[i].IngestionTime,
                               LogStreamName |-> events[i].LogStreamName,
                               Message |-> events[i].Message,
                               Timestamp |-> events[i].Timestamp]]],
     NextToken |-> "null",
     SearchedLogStreams |-> "null"]

(***************************************************************************)
(* sort.Slice(entries, less) (line 233-235, 253-255).                      *)
(* sort.Slice does not promise a stable order. For a slice of at most 12   *)
(* elements the library runs                                               *)
(*   - up to Go 1.18 (quickSort_func): one Shell pass with gap 6, then an  *)
(*     insertion sort;                                                     *)
(*   - from Go 1.19 (pdqsort_func): an insertion sort.                     *)
(* The build's Go version is not fixed by the repository, so both are      *)
(* outcomes.                                                               *)
(***************************************************************************)
LessAscending(a, b) == a.CreationTime < b.CreationTime

\* the less function: *x[i].CreationTime > *x[j].CreationTime
Less(a, b) == a.CreationTime > b.CreationTime

Swap(s, i, j) == [s EXCEPT ![i] = s[j], ![j] = s[i]]

\* for j := i; j > a && less(j, j-1); j-- { swap(j, j-1) }
RECURSIVE SinkLeft(_, _)
SinkLeft(s, j) ==
    IF j > 1 /\ Less(s[j], s[j - 1]) THEN SinkLeft(Swap(s, j, j - 1), j - 1) ELSE s

\* for i := a + 1; i < b; i++ { ... }
RECURSIVE InsertionSortFrom(_, _)
InsertionSortFrom(s, i) ==
    IF i > Len(s) THEN s ELSE InsertionSortFrom(SinkLeft(s, i), i + 1)

InsertionSort(s) == InsertionSortFrom(s, 2)

\* for i := a + 6; i < b; i++ { if less(i, i-6) { swap(i, i-6) } }
RECURSIVE ShellPassFrom(_, _)
ShellPassFrom(s, i) ==
    IF i > Len(s) THEN s
    ELSE ShellPassFrom(IF Less(s[i], s[i - 6]) THEN Swap(s, i, i - 6) ELSE s, i + 1)

QuickSortFunc(s) == IF Len(s) > 1 THEN InsertionSort(ShellPassFrom(s, 7)) ELSE s

PdqsortFunc(s) == InsertionSort(s)

SortSlice(s) == {QuickSortFunc(s), PdqsortFunc(s)}

(***************************************************************************)
(* Client registry (datasource.go 33-48).                                  *)
(***************************************************************************)
NoClient == [region |-> "", n |-> 0]

\* cloudwatchlogs.New(sess, cfg): a new client object; n tells the objects
\* constructed for one region apart.
NewClient(region, built) == [region |-> region, n |-> built[region] + 1]

\* client, ok := clientCache[region]
CacheHitNever(cache, region) == FALSE

CacheHit(cache, region) == cache[region] # NoClient

\* clientCache[region] = cloudwatchlogs.New(sess, cfg)
CacheStore(cache, region, client) == [cache EXCEPT ![region] = client]

NoCall == [region |-> "", client |-> NoClient, err |-> FALSE,
           session |-> FALSE, built |-> FALSE]

\* GetClient as one step, for the callers that run it without interleaving.
\* sessOK: whether session.NewSession succeeds.
GetClient(cache, built, region, sessOK) ==
    IF CacheHit(cache, region)
    THEN [client |-> cache[region], err |-> FALSE, cache |-> cache, built |-> built]
    ELSE IF ~sessOK
    THEN [client |-> NoClient, err |-> TRUE, cache |-> cache, built |-> built]
    ELSE LET c == NewClient(region, built)
             stored == CacheStore(cache, region, c)
         IN [client |-> stored[region], err |-> FALSE, cache |-> stored,
             built |-> [built EXCEPT ![region] = @ + 1]]

\* ---- GetClient step by step, one goroutine g at a time ----

\* A goroutine enters GetClient(region).
Call(g, region) ==
    /\ ~crashed
    /\ g \in goroutines
    /\ gpc[g] = "idle"
    /\ ncalls < MaxCalls
    /\ ncalls' = ncalls + 1
    /\ gpc' = [gpc EXCEPT ![g] = "lookup"]
    /\ greg' = [greg EXCEPT ![g] = region]
    /\ gafter' = [gafter EXCEPT ![g] = firstClient[region] # NoClient]
    /\ UNCHANGED <<clientCache, builtCount, goroutines, gnew, gret, mapWriting,
                   crashed, firstClient, reqVars>>

\* The call of g returns client (NoClient with err).
Finish(g, client, err, session, built) ==
    /\ gpc' = [gpc EXCEPT ![g] = "idle"]
    /\ gret' = [gret EXCEPT ![g] = [region |-> greg[g], client |-> client,
                                    err |-> err, session |-> session,
                                    built |-> built]]
    /\ firstClient' = IF ~err /\ firstClient[greg[g]] = NoClient
                      THEN [firstClient EXCEPT ![greg[g]] = client]
                      ELSE firstClient

\* line 38-40: the lookup, and the return of a cached client.
Lookup(g) ==
    /\ ~crashed
    /\ gpc[g] = "lookup"
    /\ \/ /\ CacheHit(clientCache, greg[g])
          /\ Finish(g, clientCache[greg[g]], FALSE, FALSE, FALSE)
          /\ UNCHANGED <<clientCache, builtCount, goroutines, greg, gnew, gafter,
                         mapWriting, crashed, ncalls, reqVars>>
       \/ /\ ~CacheHit(clientCache, greg[g])
          /\ gpc' = [gpc EXCEPT ![g] = "session"]
          /\ UNCHANGED <<clientCache, builtCount, goroutines, greg, gnew, gret,
                         gafter, mapWriting, crashed, ncalls, firstClient, reqVars>>

\* line 41-45: session.NewSession, and the return of its error.
NewSession(g) ==
    /\ ~crashed
    /\ gpc[g] = "session"
    /\ \/ /\ Finish(g, NoClient, TRUE, TRUE, FALSE)
          /\ UNCHANGED <<clientCache, builtCount, goroutines, greg, gnew, gafter,
                         mapWriting, crashed, ncalls, reqVars>>
       \/ /\ gpc' = [gpc EXCEPT ![g] = "new"]
          /\ UNCHANGED <<clientCache, builtCount, goroutines, greg, gnew, gret,
                         gafter, mapWriting, crashed, ncalls, firstClient, reqVars>>

\* line 46: cloudwatchlogs.New, and the start of the map assignment.
StoreBegin(g) ==
    /\ ~crashed
    /\ gpc[g] = "new"
    /\ gnew' = [gnew EXCEPT ![g] = NewClient(greg[g], builtCount)]
    /\ builtCount' = [builtCount EXCEPT ![greg[g]] = @ + 1]
    /\ mapWriting' = mapWriting \cup {g}
    /\ gpc' = [gpc EXCEPT ![g] = "storing"]
    /\ UNCHANGED <<clientCache, goroutines, greg, gret, gafter, crashed, ncalls,
                   firstClient, reqVars>>

\* line 46: the map assignment takes effect.
StoreEnd(g) ==
    /\ ~crashed
    /\ gpc[g] = "storing"
    /\ clientCache' = CacheStore(clientCache, greg[g], gnew[g])
    /\ mapWriting' = mapWriting \ {g}
    /\ gpc' = [gpc EXCEPT ![g] = "reread"]
    /\ UNCHANGED <<builtCount, goroutines, greg, gnew, gret, gafter, crashed,
                   ncalls, firstClient, reqVars>>

\* line 47: return clientCache[region], nil.
Reread(g) ==
    /\ ~crashed
    /\ gpc[g] = "reread"
    /\ Finish(g, clientCache[greg[g]], FALSE, TRUE, TRUE)
    /\ UNCHANGED <<clientCache, builtCount, goroutines, greg, gnew, gafter,
                   mapWriting, crashed, ncalls, reqVars>>

\* The map has no lock (line 33-35). An access of g at line 38, 46 or 47 that
\* overlaps another goroutine's assignment is a data race: the runtime may
\* throw ("concurrent map read and map write", "concurrent map writes") and
\* end the process, or not notice, and then the access goes on as in the
\* steps above.
MapRace(g) ==
    /\ ~crashed
    /\ gpc[g] \in {"lookup", "new", "reread"}
    /\ mapWriting \ {g} # {}
    /\ crashed' = TRUE
    /\ UNCHANGED <<clientCache, builtCount, goroutines, gpc, greg, gnew, gret,
                   gafter, mapWriting, ncalls, firstClient, reqVars>>

(***************************************************************************)
(* Dispatcher (Query 50-126, handleQuery 128-179, metricFindQuery 210-271) *)
(***************************************************************************)
\* line 55, 69: the mode is read from the first query's model.
Mode(first) ==
    IF first.queryType = "metricFindQuery" THEN "metricFind"
    ELSE IF first.queryType = "annotationQuery" THEN "annotation"
    ELSE "bulk"

ErrorText(c) ==
    CASE c = "json"   -> "invalid character"
      [] c = "decode" -> "json: cannot unmarshal"
      [] c = "time"   -> "strconv.ParseInt: invalid syntax"
      [] c = "client" -> "session: could not create"
      [] c = "page"   -> "RequestError: send request failed"
      [] c = "format" -> "not supported"

HandleQueryErrorTransport(msg) == TransportError(msg)

\* line 114-123: the error of handleQuery becomes a result.
HandleQueryError(msg) == Envelope(<<QueryResult("", msg, <<>>, <<>>)>>)

\* line 56-66: the error of metricFindQuery becomes a result.
MetricFindError(msg) == Envelope(<<QueryResult("metricFindQuery", msg, <<>>, <<>>)>>)

\* What Query returns when the request ends with internal error c. The
\* parse of line 51-54 and the annotation path (71-103) return the error itself.
ErrorResponse(mode, c) ==
    IF c = "json" \/ mode = "annotation" THEN TransportError(ErrorText(c))
    ELSE IF mode = "metricFind" THEN MetricFindError(ErrorText(c))
    ELSE HandleQueryError(ErrorText(c))

\* The errors met before the first GetClient call, in the order of the code:
\* line 51-54; annotation 71-81; handleQuery 131-148.
Precheck(r) ==
    LET first == r.queries[1]
        mode  == Mode(first)
    IN IF first.json = "notjson" THEN "json"
       ELSE IF mode = "metricFind" THEN "none"
       ELSE IF mode = "annotation"
       THEN (IF first.json # "ok" THEN "decode"
             ELSE IF ~r.timeOK THEN "time" ELSE "none")
       ELSE (IF ~r.timeOK THEN "time"
             ELSE IF \E i \in 1..Len(r.queries) : r.queries[i].json # "ok"
             THEN "decode" ELSE "none")

\* line 262-270.
MetricFindResponse(data) ==
    Envelope(<<QueryResult("metricFindQuery", "", <<transformToTable(data)>>, <<>>)>>)

AnnotationResponseWithRefId(events, t) ==
    Envelope(<<QueryResult(t.refId, "", <<>>, <<MarshalResp(events)>>)>>)

\* line 100-111.
AnnotationResponse(events, t) ==
    Envelope(<<QueryResult("", "", <<>>, <<MarshalResp(events)>>)>>)

FormatSwitchPrepend(rs, t, events) ==
    CASE t.format = "timeserie" -> [err |-> TRUE, results |-> rs]
      [] t.format = "table" ->
           [err |-> FALSE, results |-> <<parseTableResponse(events, t.refId)>> \o rs]
      [] OTHER -> [err |-> FALSE, results |-> rs]

FormatSwitchSkipTimeserie(rs, t, events) ==
    CASE t.format = "table" ->
           [err |-> FALSE, results |-> Append(rs, parseTableResponse(events, t.refId))]
      [] OTHER -> [err |-> FALSE, results |-> rs]

\* line 166-175: switch target.Format.
FormatSwitch(rs, t, events) ==
    CASE t.format = "timeserie" -> [err |-> TRUE, results |-> rs]
      [] t.format = "table" ->
           [err |-> FALSE, results |-> Append(rs, parseTableResponse(events, t.refId))]
      [] OTHER -> [err |-> FALSE, results |-> rs]

\* The paged operation a target is fetched with.
Operation(mode, t) ==
    IF mode # "metricFind" THEN "FilterLogEvents"
    ELSE IF t.subtype = "log_group_names" THEN "DescribeLogGroups"
    ELSE "DescribeLogStreams"

ProviderData(mode, t) ==
    IF mode # "metricFind" THEN LogData(t.region)
    ELSE IF t.subtype = "log_group_names" THEN GroupData(t.region)
    ELSE StreamData(t.region)

\* the callback: resp.Events = append(resp.Events, page.Events...)
CallbackAppend(items, page) == items \o page

CallbackContinueNever(lastPage) == FALSE

\* the callback: return !lastPage
CallbackContinue(lastPage) == ~lastPage

\* The path Query takes for request r: none when the first model is not JSON
\* (line 51-54 returns before the mode is read).
Path(r) ==
    IF r.queries = <<>> \/ r.queries[1].json = "notjson" THEN "none"
    ELSE Mode(r.queries[1])

CurMode == Mode(req.queries[1])

CurTarget == req.queries[idx]

\* Query ends with internal error c.
Fail(c) ==
    /\ pc' = "done"
    /\ cause' = c
    /\ response' = ErrorResponse(CurMode, c)

\* Query is called with request r, up to the first GetClient call.
Receive(r) ==
    /\ req' = r
    /\ LET c == Precheck(r)
       IN IF c # "none"
          THEN /\ pc' = "done"
               /\ cause' = c
               /\ response' = ErrorResponse(Mode(r.queries[1]), c)
               /\ idx' = 0
          ELSE /\ pc' = "getclient"
               /\ idx' = 1
               /\ UNCHANGED <<response, cause>>
    /\ UNCHANGED <<pages, acc, delivered, pageReqs, results, provCalls, procVars,
                   regVars>>

ReceiveRequest ==
    /\ pc = "idle"
    /\ \E r \in Requests : Receive(r)

\* GetClient for the current target (line 85, 151, 212), and what follows up
\* to the first page request.
CallGetClient ==
    /\ pc = "getclient"
    /\ \E sessOK \in BOOLEAN :
         LET t == CurTarget
             g == GetClient(clientCache, builtCount, t.region, sessOK)
         IN /\ clientCache' = g.cache
            /\ builtCount' = g.built
            /\ IF g.err
               THEN /\ Fail("client")
                    /\ UNCHANGED <<pages, acc, delivered, pageReqs>>
               ELSE IF /\ CurMode = "metricFind"
                       /\ t.subtype \notin {"log_group_names", "log_stream_names"}
               THEN /\ pc' = "done"
                    /\ response' = MetricFindResponse(SuggestData(<<>>))
                    /\ UNCHANGED <<pages, acc, delivered, pageReqs, cause>>
               ELSE /\ \E data \in ProviderData(CurMode, t) :
                          pages' \in Splits(data, MaxPages)
                    /\ pc' = "paging"
                    /\ acc' = <<>>
                    /\ delivered' = <<>>
                    /\ pageReqs' = 0
                    /\ UNCHANGED <<response, cause>>
    /\ UNCHANGED <<req, idx, results, provCalls, regVars>>

\* The provider returns the next page and the callback runs on it. The SDK
\* asks for another page when the callback returned true and a page is left.
Page ==
    /\ pc = "paging"
    /\ LET page     == Head(pages)
           lastPage == Len(pages) = 1
       IN /\ acc' = CallbackAppend(acc, page)
          /\ delivered' = delivered \o page
          /\ pages' = Tail(pages)
          /\ pc' = IF CallbackContinue(lastPage) /\ ~lastPage THEN "paging" ELSE "shape"
    /\ pageReqs' = pageReqs + 1
    /\ provCalls' = provCalls \cup {<<Operation(CurMode, CurTarget), idx>>}
    /\ UNCHANGED <<req, idx, results, response, cause, procVars, regVars>>

\* The request of the next page fails: the paged operation returns the error
\* (line 96-98, 162-164, 230-232, 250-252).
PageError ==
    /\ pc = "paging"
    /\ Fail("page")
    /\ pageReqs' = pageReqs + 1
    /\ provCalls' = provCalls \cup {<<Operation(CurMode, CurTarget), idx>>}
    /\ UNCHANGED <<req, idx, pages, acc, delivered, results, procVars, regVars>>

\* line 166-178 for the fetched target, and the step to the next target.
ShapeBulk ==
    /\ pc = "shape"
    /\ CurMode = "bulk"
    /\ LET sw == FormatSwitch(results, CurTarget, acc)
       IN IF sw.err
          THEN /\ Fail("format")
               /\ UNCHANGED <<idx, pages, acc, delivered, pageReqs, results>>
          ELSE /\ results' = sw.results
               /\ IF idx < Len(req.queries)
                  THEN /\ pc' = "getclient"
                       /\ idx' = idx + 1
                       /\ pages' = <<>>
                       /\ acc' = <<>>
                       /\ delivered' = <<>>
                       /\ pageReqs' = 0
                       /\ UNCHANGED <<response, cause>>
                  ELSE /\ pc' = "done"
                       /\ response' = Envelope(sw.results)
                       /\ UNCHANGED <<idx, pages, acc, delivered, pageReqs, cause>>
    /\ UNCHANGED <<req, provCalls, procVars, regVars>>

\* line 100-111.
ShapeAnnotation ==
    /\ pc = "shape"
    /\ CurMode = "annotation"
    /\ pc' = "done"
    /\ response' = AnnotationResponse(acc, CurTarget)
    /\ UNCHANGED <<req, idx, pages, acc, delivered, pageReqs, results, cause,
                   provCalls, procVars, regVars>>

\* line 233-239 or 253-259, then 262-270.
ShapeMetricFind ==
    /\ pc = "shape"
    /\ CurMode = "metricFind"
    /\ pc' = "done"
    /\ \E sorted \in SortSlice(acc) :
         response' = MetricFindResponse(SuggestData(sorted))
    /\ UNCHANGED <<req, idx, pages, acc, delivered, pageReqs, results, cause,
                   provCalls, procVars, regVars>>

\* Query has returned; the plugin waits for the next request.
Return ==
    /\ pc = "done"
    /\ pc' = "idle"
    /\ req' = NoReq
    /\ idx' = 0
    /\ pages' = <<>>
    /\ acc' = <<>>
    /\ delivered' = <<>>
    /\ pageReqs' = 0
    /\ results' = <<>>
    /\ response' = NoResponse
    /\ cause' = "none"
    /\ provCalls' = {}
    /\ UNCHANGED <<procVars, regVars>>

\* No request is being handled.
IdleReq ==
    /\ pc = "idle"
    /\ req = NoReq
    /\ idx = 0
    /\ pages = <<>>
    /\ acc = <<>>
    /\ delivered = <<>>
    /\ pageReqs = 0
    /\ results = <<>>
    /\ response = NoResponse
    /\ cause = "none"
    /\ provCalls = {}

InitRegistry(gs) ==
    /\ clientCache = [r \in Regions |-> NoClient]
    /\ builtCount = [r \in Regions |-> 0]
    /\ goroutines = gs
    /\ gpc = [g \in Procs |-> "idle"]
    /\ greg = [g \in Procs |-> ""]
    /\ gnew = [g \in Procs |-> NoClient]
    /\ gret = [g \in Procs |-> NoCall]
    /\ gafter = [g \in Procs |-> FALSE]
    /\ mapWriting = {}
    /\ crashed = FALSE
    /\ ncalls = 0
    /\ firstClient = [r \in Regions |-> NoClient]

GetClientSteps ==
    \/ \E g \in Procs, region \in Regions : Call(g, region)
    \/ \E g \in Procs : Lookup(g)
    \/ \E g \in Procs : NewSession(g)
    \/ \E g \in Procs : StoreBegin(g)
    \/ \E g \in Procs : StoreEnd(g)
    \/ \E g \in Procs : Reread(g)

\* One goroutine: the calls of GetClient follow one another.
InitSeq == InitRegistry({1}) /\ IdleReq

NextSeq == GetClientSteps

SpecSeq == InitSeq /\ [][NextSeq]_vars

\* Requests are served in parallel (one goroutine per gRPC call): the calls of
\* GetClient interleave.
InitConc == InitRegistry(Procs) /\ IdleReq

NextConc ==
    \/ GetClientSteps
    \/ \E g \in Procs : MapRace(g)

SpecConc == InitConc /\ [][NextConc]_vars

\* Requests handled one after the other.
Init == InitRegistry({}) /\ IdleReq

Next ==
    \/ ReceiveRequest
    \/ CallGetClient
    \/ Page
    \/ PageError
    \/ ShapeBulk
    \/ ShapeAnnotation
    \/ ShapeMetricFind
    \/ Return

Spec == Init /\ [][Next]_vars

(***************************************************************************)
(* parseTableResponse on its own: the bulk path at line 166 with one       *)
(* "table" target, for every short sequence of fetched events.             *)
(***************************************************************************)
RECURSIVE SeqsUpTo(_, _)
SeqsUpTo(S, n) ==
    IF n = 0 THEN {<<>>}
    ELSE LET shorter == SeqsUpTo(S, n - 1)
         IN shorter \cup {Append(q, x) : q \in {z \in shorter : Len(z) = n - 1}, x \in S}

\* The registry after GetClient("us-east-1") has succeeded once.
RegistryWarm ==
    /\ clientCache = [r \in Regions |->
                        IF r = "us-east-1" THEN [region |-> r, n |-> 1] ELSE NoClient]
    /\ builtCount = [r \in Regions |-> IF r = "us-east-1" THEN 1 ELSE 0]
    /\ goroutines = {}
    /\ gpc = [g \in Procs |-> "idle"]
    /\ greg = [g \in Procs |-> ""]
    /\ gnew = [g \in Procs |-> NoClient]
    /\ gret = [g \in Procs |-> NoCall]
    /\ gafter = [g \in Procs |-> FALSE]
    /\ mapWriting = {}
    /\ crashed = FALSE
    /\ ncalls = 0
    /\ firstClient = [r \in Regions |->
                        IF r = "us-east-1" THEN [region |-> r, n |-> 1] ELSE NoClient]

InitTable ==
    /\ RegistryWarm
    /\ pc = "shape"
    /\ \E id \in RefIds :
         req = [timeOK |-> TRUE,
                queries |-> <<Model("ok", "", "table", "us-east-1", id, "")>>]
    /\ idx = 1
    /\ pages = <<>>
    /\ acc \in SeqsUpTo(EventPool, MaxEvents)
    /\ delivered = acc
    /\ pageReqs = 1
    /\ results = <<>>
    /\ response = NoResponse
    /\ cause = "none"
    /\ provCalls = {<<"FilterLogEvents", 1>>}

NextTable == ShapeBulk

SpecTable == InitTable /\ [][NextTable]_vars

(***************************************************************************)
(* metricFindQuery, subtype log_group_names, on its own: the paged listing *)
(* for every short list of log groups and every cut into pages.            *)
(***************************************************************************)
GroupNames == <<"g1", "g2", "g3", "g4", "g5", "g6", "g7", "g8", "g9">>

CreationTimes == {1, 2}

GroupLists ==
    UNION {{[i \in 1..n |-> Group(GroupNames[i], t[i])] : t \in [1..n -> CreationTimes]} :
           n \in 0..MaxGroups}

InitSuggest ==
    /\ RegistryWarm
    /\ pc = "paging"
    /\ req = [timeOK |-> TRUE,
              queries |-> <<Model("ok", "metricFindQuery", "", "us-east-1", "",
                                  "log_group_names")>>]
    /\ idx = 1
    /\ \E gl \in GroupLists : pages \in Splits(gl, MaxPages)
    /\ acc = <<>>
    /\ delivered = <<>>
    /\ pageReqs = 0
    /\ results = <<>>
    /\ response = NoResponse
    /\ cause = "none"
    /\ provCalls = {}

NextSuggest ==
    \/ Page
    \/ PageError
    \/ ShapeMetricFind

SpecSuggest == InitSuggest /\ [][NextSuggest]_vars

(***************************************************************************)
(* Properties.                                                             *)
(***************************************************************************)
Done == pc = "done"

Targets == req.queries

NTargets == Len(req.queries)

\* The response is an error: a transport-level error, or one result that
\* carries an error and no table.
IsErrorResult(r) == r.Error # "" /\ r.Tables = <<>> /\ r.MetaJson = <<>>

IsErrorEnvelope(resp) ==
    /\ resp.kind = "envelope"
    /\ Len(resp.results) = 1
    /\ IsErrorResult(resp.results[1])

NoTableAnywhere(resp) ==
    \A i \in 1..Len(resp.results) : resp.results[i].Tables = <<>>

\* C1: a bulk request with a valid time range whose targets all decode and
\* all have format "table", and whose client lookups and page fetches all
\* succeed, is answered with exactly one result per target, in the order of
\* the targets, the i-th result carrying the i-th target's reference id (and
\* one table, no error).
C1_OneResultPerTableTarget ==
    ( /\ Done
      /\ Path(req) = "bulk"
      /\ req.timeOK
      /\ \A i \in 1..NTargets : Targets[i].json = "ok" /\ Targets[i].format = "table"
      /\ cause \notin {"client", "page"} )
    => /\ response.kind = "envelope"
       /\ Len(response.results) = NTargets
       /\ \A i \in 1..NTargets :
            /\ response.results[i].RefId = Targets[i].refId
            /\ response.results[i].Error = ""
            /\ Len(response.results[i].Tables) = 1

C1_Witness ==
    /\ Done
    /\ Path(req) = "bulk"
    /\ NTargets = 2
    /\ \A i \in 1..NTargets : Targets[i].json = "ok" /\ Targets[i].format = "table"
    /\ Targets[1].refId = "B"
    /\ Targets[2].refId = "A"
    /\ Targets[1].region # Targets[2].region
    /\ cause = "none"
    /\ response.kind = "envelope"

\* C2: a bulk request with a "timeserie" target at any position is answered
\* with an error and with no table for any target, also when "table" targets
\* were processed before it.
C2_TimeserieFailsWholeRequest ==
    ( /\ Done
      /\ Path(req) = "bulk"
      /\ \E i \in 1..NTargets : Targets[i].format = "timeserie" )
    => /\ response.kind = "transport_error" \/ IsErrorEnvelope(response)
       /\ NoTableAnywhere(response)

C2_Witness ==
    /\ Done
    /\ Path(req) = "bulk"
    /\ NTargets = 2
    /\ Targets[1].format = "table"
    /\ Targets[2].format = "timeserie"
    /\ cause = "format"
    /\ Len(results) = 1
    /\ IsErrorEnvelope(response)
    /\ response.results[1].Error = "not supported"

\* C3: the table parseTableResponse builds from the fetched events has the
\* columns Timestamp, IngestionTime, LogStreamName, Message in that order and
\* one row per event in the order of the events, each row holding the four
\* values of its event in column order.
C3_TableShape ==
    ( Done /\ Path(req) = "bulk" /\ cause = "none" /\ NTargets = 1
      /\ Targets[1].format = "table" )
    => /\ Len(response.results) = 1
       /\ Len(response.results[1].Tables) = 1
       /\ LET tb == response.results[1].Tables[1]
          IN /\ tb.Columns = <<"Timestamp", "IngestionTime", "LogStreamName", "Message">>
             /\ Len(tb.Rows) = Len(delivered)
             /\ \A i \in 1..Len(tb.Rows) :
                  /\ Len(tb.Rows[i]) = Len(tb.Columns)
                  /\ \A k \in 1..4 : tb.Rows[i][k].Kind = "TYPE_STRING"
                  /\ tb.Rows[i][1].StringValue = ToString(UnixSecond(delivered[i].Timestamp))
                  /\ tb.Rows[i][2].StringValue = ToString(UnixSecond(delivered[i].IngestionTime))
                  /\ tb.Rows[i][3].StringValue = delivered[i].LogStreamName
                  /\ tb.Rows[i][4].StringValue = delivered[i].Message

C3_Witness ==
    /\ Done
    /\ cause = "none"
    /\ Len(delivered) = 3
    /\ delivered[1] # delivered[2]
    /\ delivered[1].Timestamp < 0
    /\ Len(response.results[1].Tables[1].Rows) = 3

\* The suggestion rows of a finished log_group_names lookup, as names.
SuggestRows == response.results[1].Tables[1].Rows

\* Where the provider returned the group named nm (names are distinct here).
ProviderIndex(nm) == CHOOSE i \in 1..Len(delivered) : delivered[i].Name = nm

SuggestListed ==
    /\ Done
    /\ cause = "none"
    /\ Path(req) = "metricFind"
    /\ Targets[1].subtype = "log_group_names"

SuggestRowsAreTheGroups ==
    /\ response.kind = "envelope"
    /\ Len(response.results) = 1
    /\ response.results[1].Error = ""
    /\ Len(SuggestRows) = Len(delivered)
    /\ \A i \in 1..Len(delivered) :
         \E k \in 1..Len(SuggestRows) : SuggestRows[k][1].StringValue = delivered[i].Name
    /\ \A k \in 1..Len(SuggestRows) :
         /\ Len(SuggestRows[k]) = 2
         /\ SuggestRows[k][2].StringValue = SuggestRows[k][1].StringValue
         /\ \E i \in 1..Len(delivered) : delivered[i].Name = SuggestRows[k][1].StringValue

RowTime(k) == delivered[ProviderIndex(SuggestRows[k][1].StringValue)].CreationTime

\* C4 as stated: the rows are the groups of all pages, by creation time
\* descending, groups of equal creation time in the provider's order.
C4_StableDescending ==
    (SuggestListed /\ pageReqs >= 2)
    => /\ SuggestRowsAreTheGroups
       /\ \A j, k \in 1..Len(SuggestRows) :
            j < k =>
              \/ RowTime(j) > RowTime(k)
              \/ /\ RowTime(j) = RowTime(k)
                 /\ ProviderIndex(SuggestRows[j][1].StringValue)
                      < ProviderIndex(SuggestRows[k][1].StringValue)

\* C4 amended: the rows are the groups of all pages, nothing dropped and
\* nothing added, and no row has a later creation time than a row before it;
\* the order of groups of equal creation time is not fixed.
C4_DescendingPermutation ==
    SuggestListed
    => /\ SuggestRowsAreTheGroups
       /\ \A j, k \in 1..Len(SuggestRows) : j < k => RowTime(j) >= RowTime(k)

C4_Witness ==
    /\ SuggestListed
    /\ pageReqs >= 2
    /\ Len(delivered) = 7
    /\ delivered[1].CreationTime = 1
    /\ delivered[2].CreationTime = 1
    /\ delivered[7].CreationTime = 2
    /\ SuggestRows[1][1].StringValue = delivered[7].Name

UnknownSubtype ==
    /\ Done
    /\ Path(req) = "metricFind"
    /\ Targets[1].subtype \notin {"log_group_names", "log_stream_names"}

EmptySuggestionTable ==
    /\ response.kind = "envelope"
    /\ Len(response.results) = 1
    /\ response.results[1].Error = ""
    /\ response.results[1].Tables = <<[Columns |-> <<"text", "value">>, Rows |-> <<>>]>>

\* C5 as stated: for every other subtype Query returns a result without
\* error, whose table has the columns text, value and no row, and calls no
\* provider list operation.
C5_UnknownSubtypeNeverError ==
    UnknownSubtype => EmptySuggestionTable /\ provCalls = {}

\* C5 amended: for every other subtype no provider list operation is called;
\* when GetClient succeeds for the region the result has no error and its
\* table has the columns text, value and no row; when GetClient fails the
\* result is the error result tagged metricFindQuery.
C5_UnknownSubtypeEmptyTable ==
    UnknownSubtype
    => /\ provCalls = {}
       /\ cause \in {"none", "client"}
       /\ cause = "none" => EmptySuggestionTable
       /\ cause = "client" =>
            /\ IsErrorEnvelope(response)
            /\ response.results[1].RefId = "metricFindQuery"

C5_Witness ==
    /\ UnknownSubtype
    /\ Targets[1].subtype = "log_events"
    /\ cause = "none"
    /\ response.results[1].RefId = "metricFindQuery"
    /\ response.results[1].Tables[1].Rows = <<>>

\* A finished call of goroutine g that started after a call for its region
\* had succeeded.
LaterCall(g) == gpc[g] = "idle" /\ gret[g] # NoCall /\ gafter[g]

\* C6: with one goroutine, once a GetClient call for a region has succeeded,
\* every later call for that region returns that same handle without making a
\* session or a client, and the cache keeps that handle whatever other
\* regions are asked for.
C6_CachedHandleIsReturned ==
    /\ \A r \in Regions : firstClient[r] # NoClient => clientCache[r] = firstClient[r]
    /\ \A g \in Procs :
         LaterCall(g) =>
           /\ ~gret[g].err
           /\ gret[g].client = firstClient[gret[g].region]
           /\ ~gret[g].session
           /\ ~gret[g].built
           /\ builtCount[gret[g].region] = 1

C6_Witness ==
    /\ LaterCall(1)
    /\ gret[1].region = "us-east-1"
    /\ gret[1].client = [region |-> "us-east-1", n |-> 1]
    /\ clientCache["sa-east-1"] # NoClient
    /\ ncalls = 3

\* C7: whatever the interleaving of GetClient calls, at most one client is
\* ever constructed per region, and all callers of one region get the same
\* handle.
C7_OneClientPerRegion ==
    /\ \A r \in Regions : builtCount[r] <= 1
    /\ \A g, h \in Procs :
         ( /\ gpc[g] = "idle" /\ gpc[h] = "idle"
           /\ gret[g] # NoCall /\ gret[h] # NoCall
           /\ ~gret[g].err /\ ~gret[h].err
           /\ gret[g].region = gret[h].region )
         => gret[g].client = gret[h].client

ErrorsBecomeResults ==
    (Done /\ cause # "none" /\ Path(req) \in {"bulk", "metricFind"})
    => IsErrorEnvelope(response)

\* C8 as stated: on the bulk and the metadata path every internal error is
\* returned as an envelope with exactly one result carrying the error, and
\* only the annotation path returns a transport-level error.
C8_OnlyAnnotationFailsTransport ==
    /\ ErrorsBecomeResults
    /\ (Done /\ response.kind = "transport_error") => Path(req) = "annotation"

\* C8 amended: on the bulk and the metadata path every internal error is
\* returned as an envelope with exactly one result carrying the error; a
\* transport-level error is returned only on the annotation path and when
\* the first target's model is not a JSON document, which is found before a
\* path is chosen.
C8_ErrorEnvelopeOrFirstModelParse ==
    /\ ErrorsBecomeResults
    /\ (Done /\ response.kind = "transport_error")
         => \/ Path(req) = "annotation"
            \/ Targets[1].json = "notjson"
    /\ (Done /\ Path(req) = "annotation" /\ cause # "none")
         => response.kind = "transport_error"

C8_Witness ==
    /\ Done
    /\ Path(req) = "bulk"
    /\ cause = "page"
    /\ idx = 2
    /\ IsErrorEnvelope(response)
    /\ response.results[1].RefId = ""

\* C9: on the annotation path only the first target is decoded and fetched
\* (every provider call is a log search for target 1), and a request that
\* succeeds is answered with exactly one result that carries the fetched
\* events as a JSON document in its metadata field, without table and
\* without reference id.
C9_AnnotationFirstTargetOnly ==
    Path(req) = "annotation"
    => /\ idx <= 1
       /\ provCalls \subseteq {<<"FilterLogEvents", 1>>}
       /\ (Done /\ cause = "none") =>
            /\ response.kind = "envelope"
            /\ Len(response.results) = 1
            /\ response.results[1].MetaJson = <<MarshalResp(delivered)>>
            /\ response.results[1].Tables = <<>>
            /\ response.results[1].RefId = ""
            /\ response.results[1].Error = ""

C9_Witness ==
    /\ Done
    /\ Path(req) = "annotation"
    /\ cause = "none"
    /\ NTargets = 2
    /\ Targets[2].json = "notjson"
    /\ Len(delivered) = 3
    /\ pageReqs = 2
    /\ response.results[1].MetaJson[1].Events.items[3].Message = "warn"

LogSearch == pc # "idle" /\ Path(req) \in {"bulk", "annotation"}

\* C10: a log search asks for pages as long as the provider has one left and
\* for none after the last; when every page succeeds the accumulated events
\* are the events of all pages in the order the pages came; when a page
\* request fails the request ends there (no retry) and no event reaches the
\* response.
C10_AllPagesInOrder ==
    LogSearch
    => /\ pc = "paging" => pages # <<>> /\ acc = delivered
       /\ pc = "shape" => pages = <<>> /\ acc = delivered /\ pageReqs >= 1
       /\ cause = "page" =>
            /\ Done
            /\ NoTableAnywhere(response)
            /\ \A i \in 1..Len(response.results) : response.results[i].MetaJson = <<>>

C10_Witness ==
    /\ LogSearch
    /\ pc = "shape"
    /\ pageReqs = 2
    /\ Len(acc) = 3
    /\ acc[1].Message = "start"
    /\ acc[3].Message = "warn"
    /\ idx = 2

====
